---- MODULE Spec2Model ----
(***************************************************************************)
(* A model of the Loot decompiler: the tagged-value decoder (parse_const), *)
(* the program index built by Program::from_elf_file, and the idiom        *)
(* matcher (parse_expr / parse).                                           *)
(*                                                                         *)
(* A 64-bit word is four 16-bit limbs <<l3, l2, l1, l0>>, most significant *)
(* first, so that shifts, masks and the u64 -> i64 / u64 -> u32            *)
(* conversions act on exactly 64 bits.                                     *)
(***************************************************************************)
EXTENDS Integers, Sequences, FiniteSets, TLC

VARIABLES
    lit,                \* the u64 handed to parse_const
    decoded,            \* what parse_const returned for it
    elf,                \* the ELF input: symbol table, .text start, decoded code
    ld,                 \* position of from_elf_file / main
    symidx,             \* number of symbol-table entries already inserted
    insidx,             \* number of instructions already entered in memory_map
    address_to_symbols, \* Program.address_to_symbols
    symbols_to_address, \* Program.symbols_to_address
    entry_point,        \* Program.entry_point (a one-element tuple once resolved)
    instructions,       \* Program.instructions
    memory_map,         \* Program.memory_map: a BiMap, the set of its <<address, index>> pairs
    frames,             \* the active parse_expr calls, outermost first
    stack,              \* the operand stack `stack: &mut Vec<Expr>` shared by these calls
    status,             \* "running", "ok", "err" (anyhow error returned) or "panic"
    ret                 \* <<r>> when the step made a parse_expr call return r, else <<>>

vars == <<lit, decoded, elf, ld, symidx, insidx, address_to_symbols, symbols_to_address,
          entry_point, instructions, memory_map, frames, stack, status, ret>>

constVars == <<lit, decoded>>
loadVars == <<elf, ld, symidx, insidx, address_to_symbols, symbols_to_address,
              entry_point, instructions, memory_map>>
parseVars == <<frames, stack, status, ret>>

(***************************************************************************)
(* 64-bit words                                                            *)
(***************************************************************************)
LimbBase == 65536

\* The word of a small non-negative number.
W(n) == <<0, 0, n \div LimbBase, n % LimbBase>>

\* `w >> k` on u64 (logical: zeros come in at the top), 0 < k < 16.
Shr(w, k) ==
    LET limb(i) == (w[i] \div (2^k))
                   + (IF i > 1 THEN (w[i - 1] % (2^k)) * (2^(16 - k)) ELSE 0)
    IN <<limb(1), limb(2), limb(3), limb(4)>>

\* `w << k` on u64 (wrapping: the top k bits are lost), 0 < k < 16.
Shl(w, k) ==
    LET limb(i) == ((w[i] * (2^k)) % LimbBase)
                   + (IF i < 4 THEN w[i + 1] \div (2^(16 - k)) ELSE 0)
    IN <<limb(1), limb(2), limb(3), limb(4)>>

\* `w & (2^k - 1)`, k <= 16, as a number.
LowBits(w, k) == w[4] % (2^k)

\* `x as i64`: the same 64 bits read as two's complement.
AsI64(w) == w

\* Whether an i64 (as its 64 bits) is negative.
I64Negative(x) == x[1] >= 32768

\* `u64.try_into::<u32>()`: Ok exactly when the upper 32 bits are zero.
FitsU32(w) == w[1] = 0 /\ w[2] = 0

(***************************************************************************)
(* loot.rs: Expr, Datum, Operation                                         *)
(***************************************************************************)
Integer(i) == <<"Integer", i>>
Boolean(b) == <<"Boolean", b>>
Character(c) == <<"Character", c>>

Literal(d) == <<"Literal", d>>
Op0(name) == <<"Op", name, <<>>>>
Add1(e) == <<"Op", "Add1", <<e>>>>
Plus(e1, e2) == <<"Op", "Plus", <<e1, e2>>>>
If(c, t, f) == <<"If", c, t, f>>
Begin(first, rest) == <<"Begin", first, rest>>
Unknown == <<"Unknown">>

\* Option<Expr> plus the third outcome of a call that can panic.
SomeE(e) == [kind |-> "Some", val |-> e]
NoneE == [kind |-> "None", val |-> Unknown]
PanicE == [kind |-> "Panic", val |-> Unknown]

(***************************************************************************)
(* decompiler.rs: parse_const                                              *)
(***************************************************************************)
\* char::from_u32 on a u32 given as <<upper 16 bits, lower 16 bits>>:
\* Some(code point) unless it is a surrogate or above 0x10FFFF.
char_from_u32(hi, lo) ==
    IF hi > 16
    THEN <<>>
    ELSE LET v == hi * LimbBase + lo
         IN IF v >= 55296 /\ v <= 57343 THEN <<>> ELSE <<v>>

parse_const(l) ==
    IF l = W(24) THEN SomeE(Literal(Boolean(TRUE)))
    ELSE IF l = W(56) THEN SomeE(Literal(Boolean(FALSE)))
    ELSE IF l = W(120) THEN SomeE(Op0("Void"))
    ELSE IF LowBits(l, 5) = 8
    THEN LET s == Shr(l, 5)
         IN IF ~FitsU32(s)
            THEN PanicE                        \* try_into().unwrap()
            ELSE LET c == char_from_u32(s[3], s[4])
                 IN IF c = <<>>
                    THEN NoneE                 \* the `?`
                    ELSE SomeE(Literal(Character(c[1])))
    ELSE IF LowBits(l, 4) = 0
    THEN SomeE(Literal(Integer(AsI64(Shr(l, 4)))))
    ELSE NoneE

(***************************************************************************)
(* a86.rs: Instruction, Arg                                                *)
(***************************************************************************)
Reg(r) == <<"Register", r>>
Lit(w) == <<"Literal", w>>
Addr(a) == <<"Address", a>>

Mov(d, s) == <<"Mov", d, s>>
Add(d, s) == <<"Add", d, s>>
Sub(d, s) == <<"Sub", d, s>>
And(d, s) == <<"And", d, s>>
Cmp(d, s) == <<"Cmp", d, s>>
Call(a) == <<"Call", a>>
Jmp(t) == <<"Jmp", t>>
Jne(t) == <<"Jne", t>>
Je(t) == <<"Je", t>>
Push(a) == <<"Push", a>>
Pop(a) == <<"Pop", a>>
Ret == <<"Ret">>

\* A decoded instruction that Instruction::try_from rejects
\* ("instruction code ... not implmented").
Unsupported == <<"Unsupported">>

(***************************************************************************)
(* a86.rs: Program and Program::from_elf_file                              *)
(***************************************************************************)
\* HashMap::insert
HashMapInsert(m, k, v) ==
    [x \in (DOMAIN m) \cup {k} |-> IF x = k THEN v ELSE m[x]]

\* A slip: the set at `address` is replaced instead of extended.
EntryOverwrite(m, address, identifier) ==
    HashMapInsert(m, address, {identifier})

\* address_to_symbols.entry(address).and_modify(insert).or_insert({identifier})
EntryAndModifyOrInsert(m, address, identifier) ==
    HashMapInsert(m, address,
        IF address \in DOMAIN m THEN m[address] \cup {identifier} ELSE {identifier})

\* BiMap::insert: pairs sharing the left or the right value are overwritten.
BiMapInsert(m, l, r) ==
    UNION {{p \in m : p[1] # pair[1] /\ p[2] # pair[2]} \cup {pair} :
              pair \in {<<l, r>>}}

\* instr.ip() of the i-th decoded instruction (0-based): the decoder starts at
\* `entry` and each instruction begins where the previous one ended, so the
\* address is `entry` plus the number of bytes <<k, j>> (byte j of the k-th
\* instruction) of the instructions before it.
Ip(code, entry, i) ==
    entry + Cardinality(UNION {{<<k, j>> : j \in 1..code[k].len} : k \in 1..i})

\* A slip: the loop forgets enumerate() and files every instruction under index 0.
InsertInstrNoIndex(m, code, entry, i) == BiMapInsert(m, Ip(code, entry, i), 0)

\* memory_map.insert(instr.ip(), i) for the instruction with 0-based index i
InsertInstr(m, code, entry, i) == BiMapInsert(m, Ip(code, entry, i), i)

address_to_index(address) ==
    LET s == {p \in memory_map : p[1] = address}
    IN IF s = {} THEN <<>> ELSE <<(CHOOSE p \in s : TRUE)[2]>>

index_to_address(index) ==
    LET s == {p \in memory_map : p[2] = index}
    IN IF s = {} THEN <<>> ELSE <<(CHOOSE p \in s : TRUE)[1]>>

symbol_to_address(symbol) ==
    IF symbol \in DOMAIN symbols_to_address
    THEN <<symbols_to_address[symbol]>>
    ELSE <<>>

address_to_symbols_of(address) ==
    IF address \in DOMAIN address_to_symbols
    THEN address_to_symbols[address]
    ELSE {}

\* One iteration of `for symbol in parsing_table`.
LoadSymbol ==
    /\ ld = "symbols"
    /\ symidx < Len(elf.symtab)
    /\ LET symbol == elf.symtab[symidx + 1]
       IN /\ symbols_to_address' =
                HashMapInsert(symbols_to_address, symbol.name, symbol.value)
          /\ address_to_symbols' =
                EntryAndModifyOrInsert(address_to_symbols, symbol.value, symbol.name)
    /\ symidx' = symidx + 1
    /\ UNCHANGED <<elf, ld, insidx, entry_point, instructions, memory_map>>
    /\ UNCHANGED <<constVars, parseVars>>

\* The symbol loop is over: look up "entry" and its offset in .text.
ResolveEntry ==
    /\ ld = "symbols"
    /\ symidx = Len(elf.symtab)
    /\ IF symbol_to_address("entry") = <<>>
       THEN /\ ld' = "failed"
            /\ status' = "err"
            /\ UNCHANGED entry_point
       ELSE LET e == symbol_to_address("entry")[1]
            IN IF e < elf.text_start \/ e - elf.text_start > elf.text_size
               THEN \* u64 underflow, or a slice start past the end of .text
                    /\ ld' = "failed"
                    /\ status' = "panic"
                    /\ UNCHANGED entry_point
               ELSE /\ ld' = "decode"
                    /\ entry_point' = <<e>>
                    /\ UNCHANGED status
    /\ UNCHANGED <<elf, symidx, insidx, address_to_symbols, symbols_to_address,
                   instructions, memory_map>>
    /\ UNCHANGED <<constVars, frames, stack, ret>>

\* Decode .text from the entry point and normalise every instruction.
Disassemble ==
    /\ ld = "decode"
    /\ IF \E i \in 1..Len(elf.code) : elf.code[i].ins = Unsupported
       THEN /\ ld' = "failed"
            /\ status' = "err"
            /\ UNCHANGED instructions
       ELSE /\ ld' = "index"
            /\ instructions' = [i \in 1..Len(elf.code) |-> elf.code[i].ins]
            /\ UNCHANGED status
    /\ UNCHANGED <<elf, symidx, insidx, address_to_symbols, symbols_to_address,
                   entry_point, memory_map>>
    /\ UNCHANGED <<constVars, frames, stack, ret>>

\* One iteration of
\* `for (i, instr) in instrs.iter().enumerate() { memory_map.insert(instr.ip(), i); }`;
\* after the last one from_elf_file returns the Program.
BuildMemoryMap ==
    /\ ld = "index"
    /\ IF insidx < Len(elf.code)
       THEN /\ memory_map' = InsertInstr(memory_map, elf.code, entry_point[1], insidx)
            /\ insidx' = insidx + 1
            /\ ld' = IF insidx + 1 = Len(elf.code) THEN "loaded" ELSE "index"
       ELSE /\ ld' = "loaded"
            /\ UNCHANGED <<memory_map, insidx>>
    /\ UNCHANGED <<elf, symidx, address_to_symbols, symbols_to_address,
                   entry_point, instructions>>
    /\ UNCHANGED <<constVars, parseVars>>

(***************************************************************************)
(* The decoder on its own                                                  *)
(***************************************************************************)
Pending == [kind |-> "Pending", val |-> Unknown]

ConstWords ==
    {<<a, b, c, d>> :
        a \in {0, 2047, 2048, 32768, 63488, 65535},
        b \in {0, 32, 65535},
        c \in {0, 1, 27, 543, 544, 65535},
        d \in {0, 1, 8, 16, 24, 40, 56, 120, 3112, 65512, 65520, 65528}}

NoElf == [symtab |-> <<>>, text_start |-> 0, text_size |-> 0, code |-> <<>>]

IdleLoader ==
    /\ elf = NoElf
    /\ ld = "idle"
    /\ symidx = 0
    /\ insidx = 0
    /\ address_to_symbols = <<>>
    /\ symbols_to_address = <<>>
    /\ entry_point = <<>>
    /\ instructions = <<>>
    /\ memory_map = {}

IdleParser ==
    /\ frames = <<>>
    /\ stack = <<>>
    /\ status = "running"
    /\ ret = <<>>

InitConst ==
    /\ lit \in ConstWords
    /\ decoded = Pending
    /\ IdleLoader
    /\ IdleParser

ParseConst ==
    /\ decoded = Pending
    /\ ld = "idle"
    /\ decoded' = parse_const(lit)
    /\ UNCHANGED <<lit, loadVars, parseVars>>

NextConst == ParseConst

SpecConst == InitConst /\ [][NextConst]_vars

\* The signed reading of an encoded integer: `w >> 4` with the sign bit
\* copied in at the top (arithmetic shift).
Sar4(w) ==
    LET s == Shr(w, 4)
    IN IF I64Negative(w) THEN <<s[1] + 61440, s[2], s[3], s[4]>> ELSE s

\* n*16 in 64-bit two's complement
encode(n) == Shl(n, 4)

\* -2^59 <= n < 2^59: bits 59..63 of n are all equal
InEncodableRange(n) == n[1] < 2048 \/ n[1] >= 63488

\* C1 (as claimed): for every n in -2^59 .. 2^59 - 1, negative n included,
\* parse_const(encode(n)) is Literal(Integer(n)).
C1_RoundTrip ==
    (decoded # Pending /\ LowBits(lit, 4) = 0)
        => LET n == Sar4(lit)
           IN (InEncodableRange(n) /\ encode(n) = lit)
                => decoded = SomeE(Literal(Integer(n)))

\* Whether a 59-bit payload is a Unicode scalar value.
ValidScalar(s) ==
    /\ s[1] = 0
    /\ s[2] = 0
    /\ s[3] <= 16
    /\ ~(s[3] = 0 /\ s[4] >= 55296 /\ s[4] <= 57343)

\* C2 (as claimed): a word tagged as a character decodes to
\* Character(w >> 5) exactly when w >> 5 is a Unicode scalar value, and to
\* None, without a panic, in every other case.
C2_CharOrNone ==
    (decoded # Pending /\ LowBits(lit, 5) = 8)
        => LET s == Shr(lit, 5)
           IN IF ValidScalar(s)
              THEN decoded = SomeE(Literal(Character(s[3] * LimbBase + s[4])))
              ELSE decoded = NoneE

(***************************************************************************)
(* The loader on its own                                                   *)
(***************************************************************************)
MaxSyms == 3
MaxInstrs == 3

EntryAddr == 16

SeqsUpTo(S, n) == UNION {[1..k -> S] : k \in 0..n}

LoadSymtabs ==
    SeqsUpTo([name : {"entry", "f"}, value : {EntryAddr, EntryAddr + 1}], MaxSyms)

LoadCodes ==
    SeqsUpTo([len : {1, 3}, ins : {Ret, Unsupported}], MaxInstrs)

InitLoad ==
    /\ lit = W(0)
    /\ decoded = Pending
    /\ elf \in [symtab : LoadSymtabs, text_start : {EntryAddr, EntryAddr + 1},
                 text_size : {64}, code : LoadCodes]
    /\ ld = "symbols"
    /\ symidx = 0
    /\ insidx = 0
    /\ address_to_symbols = <<>>
    /\ symbols_to_address = <<>>
    /\ entry_point = <<>>
    /\ instructions = <<>>
    /\ memory_map = {}
    /\ IdleParser

NextLoad == LoadSymbol \/ ResolveEntry \/ Disassemble \/ BuildMemoryMap

SpecLoad == InitLoad /\ [][NextLoad]_vars

Names(n) == {elf.symtab[k].name : k \in 1..n}
Values(n) == {elf.symtab[k].value : k \in 1..n}

\* C7: in a loaded Program the address/index map is a bijection between the
\* instruction addresses and 0..len-1, both round trips are the identity,
\* addresses increase strictly with the index and index 0 is the entry point.
C7_Bijection ==
    ld = "loaded" =>
        LET n == Len(instructions)
            a(i) == Ip(elf.code, entry_point[1], i)
        IN /\ Cardinality(memory_map) = n
           /\ \A i \in 0..(n - 1) :
                /\ address_to_index(a(i)) = <<i>>
                /\ index_to_address(i) = <<a(i)>>
                /\ index_to_address(address_to_index(a(i))[1]) = <<a(i)>>
                /\ address_to_index(index_to_address(i)[1]) = <<i>>
           /\ \A p \in memory_map : \E i \in 0..(n - 1) : p = <<a(i), i>>
           /\ \A i, j \in 0..(n - 1) :
                i < j => index_to_address(i)[1] < index_to_address(j)[1]
           /\ n > 0 => index_to_address(0) = entry_point

C7_Witness ==
    /\ ld = "loaded"
    /\ Len(instructions) = 3
    /\ elf.code[1].len # elf.code[2].len

\* C8: after any sequence of symbol insertions every name's address lists
\* the name, and an address that no symbol has lists nothing.
C8_SymbolMapsConsistent ==
    /\ DOMAIN symbols_to_address = Names(symidx)
    /\ \A n \in Names(symidx) :
          /\ symbol_to_address(n) # <<>>
          /\ n \in address_to_symbols_of(symbol_to_address(n)[1])
    /\ \A x \in (EntryAddr - 1)..(EntryAddr + 2) :
          x \notin Values(symidx) => address_to_symbols_of(x) = {}

\* two names at one address, and one name inserted twice at two addresses
C8_Witness ==
    /\ symidx = 3
    /\ elf.symtab[1].name # elf.symtab[2].name
    /\ elf.symtab[1].value = elf.symtab[2].value
    /\ elf.symtab[3].name = elf.symtab[1].name
    /\ elf.symtab[3].value # elf.symtab[1].value

(***************************************************************************)
(* decompiler.rs: parse_expr, parse_defines, parse                         *)
(*                                                                         *)
(* Indices into `instructions` are 0-based as in the source.  A usize that *)
(* arose by wrapping below zero (`0 - 1` in a build without overflow       *)
(* checks) is held as the negative number u - 2^64.                        *)
(***************************************************************************)
MaxExprs == 3
MaxDepth == 4

InstrCount == Len(instructions)
At(i) == instructions[i + 1]

\* `a < b` on usize, b possibly wrapped
UsizeLess(a, b) == IF b < 0 THEN TRUE ELSE a < b

IsReg(arg, r) == arg[1] = "Register" /\ arg[2] = r
IsAcc(arg) == arg[1] = "Register" /\ arg[2] \in {"Eax", "Rax"}
IsLit(arg, n) == arg[1] = "Literal" /\ arg[2] = W(n)

IsRegReg(ins, op, d, s) ==
    ins[1] = op /\ IsReg(ins[2], d) /\ IsReg(ins[3], s)
IsRegLit(ins, op, d, n) ==
    ins[1] = op /\ IsReg(ins[2], d) /\ IsLit(ins[3], n)
IsJumpToAddress(ins, op) ==
    ins[1] = op /\ ins[2][1] = "Address"

\* Mov R9,<reg>; And R9,0xf; Cmp R9,0x0; Jne <address>  at index i
TypeCheckAt(i, reg) ==
    /\ i + 3 < InstrCount
    /\ IsRegReg(At(i), "Mov", "R9", reg)
    /\ IsRegLit(At(i + 1), "And", "R9", 15)
    /\ IsRegLit(At(i + 2), "Cmp", "R9", 0)
    /\ IsJumpToAddress(At(i + 3), "Jne")

\* The arm of `match program.instructions()[pos..]` that is taken.
Peek(pos) ==
    IF pos > InstrCount THEN "out_of_bounds"
    ELSE IF pos = InstrCount THEN "none"
    ELSE IF /\ At(pos)[1] = "Mov"
            /\ IsAcc(At(pos)[2])
            /\ At(pos)[3][1] = "Literal"
    THEN "literal"
    ELSE IF /\ pos + 4 < InstrCount
            /\ IsRegReg(At(pos), "Mov", "R15", "Rsp")
            /\ IsRegLit(At(pos + 1), "And", "R15", 8)
            /\ IsRegReg(At(pos + 2), "Sub", "Rsp", "R15")
            /\ At(pos + 3)[1] = "Call"
            /\ IsRegReg(At(pos + 4), "Add", "Rsp", "R15")
    THEN "call"
    ELSE IF TypeCheckAt(pos, "Rax")
    THEN "unary"
    ELSE IF At(pos)[1] = "Push" /\ IsAcc(At(pos)[2])
    THEN "spill"
    ELSE IF /\ At(pos)[1] = "Pop"
            /\ IsReg(At(pos)[2], "R8")
            /\ TypeCheckAt(pos + 1, "R8")
            /\ TypeCheckAt(pos + 5, "Rax")
    THEN "binary"
    ELSE IF /\ pos + 1 < InstrCount
            /\ At(pos)[1] = "Cmp"
            /\ IsAcc(At(pos)[2])
            /\ At(pos)[3][1] = "Literal"
            /\ IsJumpToAddress(At(pos + 1), "Je")
    THEN "cond"
    ELSE "none"

\* let mut expr = expr_list.pop().unwrap();
\* while expr_list.len() > 0 { expr = Begin(expr_list.pop().unwrap(), expr) }
RECURSIVE FoldInto(_, _)
FoldInto(expr_list, expr) ==
    IF expr_list = <<>>
    THEN expr
    ELSE FoldInto(SubSeq(expr_list, 1, Len(expr_list) - 1),
                  Begin(expr_list[Len(expr_list)], expr))

\* A slip: only the last expression of the region is kept.
FoldLast(expr_list) == expr_list[Len(expr_list)]

Fold(expr_list) ==
    FoldInto(SubSeq(expr_list, 1, Len(expr_list) - 1), expr_list[Len(expr_list)])

RECURSIVE ExprDepth(_)
ExprDepth(e) ==
    IF e[1] = "Op"
    THEN IF e[3] = <<>> THEN 1
         ELSE IF Len(e[3]) = 1 THEN 1 + ExprDepth(e[3][1])
         ELSE 1 + (IF ExprDepth(e[3][1]) > ExprDepth(e[3][2])
                   THEN ExprDepth(e[3][1]) ELSE ExprDepth(e[3][2]))
    ELSE IF e[1] = "Begin"
    THEN 1 + (IF ExprDepth(e[2]) > ExprDepth(e[3])
              THEN ExprDepth(e[2]) ELSE ExprDepth(e[3]))
    ELSE IF e[1] = "If"
    THEN 1 + (IF ExprDepth(e[2]) > ExprDepth(e[3])
              THEN (IF ExprDepth(e[2]) > ExprDepth(e[4])
                    THEN ExprDepth(e[2]) ELSE ExprDepth(e[4]))
              ELSE (IF ExprDepth(e[3]) > ExprDepth(e[4])
                    THEN ExprDepth(e[3]) ELSE ExprDepth(e[4])))
    ELSE 1

\* A parse_expr call: its arguments, its locals, and where it waits while a
\* nested call runs ("loop": at the head of its while loop).  stack_on_entry
\* is what `stack` held when the call was made, then_stack what it held when
\* the call made the call for the then-region of its conditional.
NewFrame(position, stop) ==
    [position |-> position, stop |-> stop, pos |-> position,
     expr_list |-> <<>>, pc |-> "loop",
     if_false |-> 0, jmp_loc |-> 0, if_end |-> 0, expr_if_true |-> Unknown,
     stack_on_entry |-> <<>>, then_stack |-> <<>>]

Top == frames[Len(frames)]
Below == SubSeq(frames, 1, Len(frames) - 1)
Front(q) == SubSeq(q, 1, Len(q) - 1)
Last(q) == q[Len(q)]

\* The model explores a run while its expression lists and expressions stay small.
WithinBounds ==
    \A k \in 1..Len(frames) :
        /\ Len(frames[k].expr_list) <= MaxExprs
        /\ \A j \in 1..Len(frames[k].expr_list) :
              ExprDepth(frames[k].expr_list[j]) <= MaxDepth

AtLoopHead ==
    /\ ld = "parsing"
    /\ status = "running"
    /\ frames # <<>>
    /\ Top.pc = "loop"
    /\ WithinBounds

\* The while condition of the running call.
InRegion ==
    IF Top.stop = <<>> THEN TRUE ELSE UsizeLess(Top.pos, Top.stop[1])

Matches(arm) == AtLoopHead /\ InRegion /\ Peek(Top.pos) = arm

\* A panic (unwrap on None, unimplemented!, index out of range) or a bail!
\* unwinds every call.
Abort(kind) ==
    /\ frames' = <<>>
    /\ stack' = <<>>
    /\ status' = kind
    /\ ret' = <<>>

\* The running call goes round its loop: `pos = new_pos; expr_list.push(expr)`.
Advance(expr_list, new_pos) ==
    /\ frames' = Append(Below, [Top EXCEPT !.expr_list = expr_list, !.pos = new_pos])
    /\ UNCHANGED <<stack, status>>
    /\ ret' = <<>>

\* parse_expr(program, position, stop, stack) is entered from frame list fs.
Enter(fs, st, position, stop, returned) ==
    IF symbol_to_address("err") = <<>>
    THEN /\ frames' = <<>>
         /\ stack' = <<>>
         /\ status' = "panic"
         /\ ret' = returned
    ELSE /\ frames' = Append(fs, [NewFrame(position, stop) EXCEPT !.stack_on_entry = st])
         /\ stack' = st
         /\ UNCHANGED status
         /\ ret' = returned

err_label == symbol_to_address("err")[1]

\* Whether the guard of the unary idiom jumps where it must.
UnaryGuardOk(lab, err) == lab = err

\* A slip: only the first guard's target is compared.
BinaryGuardsSlip(lab1, lab2, err) == lab1 = err

\* Whether both guards of the binary idiom jump where they must.
BinaryGuardsOk(lab1, lab2, err) == ~(lab1 # err \/ lab2 # err)

\* A slip: the argument is read but not popped.
Add1Slip(expr_list, pos) ==
    [expr_list |-> Append(expr_list, Add1(Last(expr_list))), pos |-> pos + 5]

\* "looks like an Add1": the list after `expr_list.pop()` and the push of the
\* new node, and the new cursor.
Add1Arm(expr_list, pos) ==
    [expr_list |-> Append(Front(expr_list), Add1(Last(expr_list))), pos |-> pos + 5]

\* A slip: the two arguments change places.
PlusSlip(st, expr_list, pos) ==
    [stack |-> Front(st),
     expr_list |-> Append(Front(expr_list), Plus(Last(expr_list), Last(st))),
     pos |-> pos + 10]

\* "looks like a Plus": arg1 = stack.pop(), arg2 = expr_list.pop(); the
\* operand stack and the list after the push of the new node, and the new cursor.
PlusArm(st, expr_list, pos) ==
    [stack |-> Front(st),
     expr_list |-> Append(Front(expr_list), Plus(Last(st), Last(expr_list))),
     pos |-> pos + 10]

\* A slip: the cursor stays on the Cmp of the conditional.
IfSlip(expr_list, expr_if_true, expr_if_false, pos, if_end) ==
    [expr_list |-> Append(Front(expr_list),
                          If(Last(expr_list), expr_if_true, expr_if_false)),
     pos |-> pos]

\* v = expr_list.pop(); (If(v, expr_if_true, expr_if_false), if_end): the list
\* after the push of the new node, and the new cursor.
IfArm(expr_list, expr_if_true, expr_if_false, pos, if_end) ==
    [expr_list |-> Append(Front(expr_list),
                          If(Last(expr_list), expr_if_true, expr_if_false)),
     pos |-> if_end]

\* Mov Eax/Rax, imm
LiteralLoad ==
    /\ Matches("literal")
    /\ LET c == parse_const(At(Top.pos)[3][2])
       IN IF c.kind = "Some"
          THEN Advance(Append(Top.expr_list, c.val), Top.pos + 1)
          ELSE Abort("panic")
    /\ UNCHANGED <<constVars, loadVars>>

\* pad-stack + call + unpad-stack
PrimitiveCall ==
    /\ Matches("call")
    /\ LET addr == At(Top.pos + 3)[2]
       IN IF symbol_to_address("read_byte") = <<>>
          THEN Abort("panic")
          ELSE IF addr = symbol_to_address("read_byte")[1]
          THEN Advance(Append(Top.expr_list, Op0("ReadByte")), Top.pos + 5)
          ELSE IF symbol_to_address("peek_byte") = <<>>
          THEN Abort("panic")
          ELSE IF addr = symbol_to_address("peek_byte")[1]
          THEN Advance(Append(Top.expr_list, Op0("PeekByte")), Top.pos + 5)
          ELSE Abort("panic")
    /\ UNCHANGED <<constVars, loadVars>>

\* type check for int, then the instruction that selects the operation
GuardedUnary ==
    /\ Matches("unary")
    /\ LET pos == Top.pos
           lab == At(pos + 3)[2][2]
       IN IF ~UnaryGuardOk(lab, err_label)
          THEN Abort("err")
          ELSE IF pos + 4 < InstrCount /\ IsRegLit(At(pos + 4), "Add", "Rax", 16)
          THEN IF Top.expr_list = <<>>
               THEN Abort("panic")
               ELSE LET a == Add1Arm(Top.expr_list, pos)
                    IN Advance(a.expr_list, a.pos)
          ELSE Abort("panic")
    /\ UNCHANGED <<constVars, loadVars>>

\* Push Eax/Rax: fold what the region has so far, push it on the operand
\* stack and parse on, unbounded, from the next instruction.
OperandSpill ==
    /\ Matches("spill")
    /\ IF Top.expr_list = <<>>
       THEN Abort("panic")
       ELSE Enter(Append(Below, [Top EXCEPT !.expr_list = <<>>, !.pc = "spill"]),
                  Append(stack, Fold(Top.expr_list)),
                  Top.pos + 1, <<>>, <<>>)
    /\ UNCHANGED <<constVars, loadVars>>

\* pop + type check r8 and rax for int, then the binary instruction
GuardedBinary ==
    /\ Matches("binary")
    /\ LET pos == Top.pos
           lab1 == At(pos + 4)[2][2]
           lab2 == At(pos + 8)[2][2]
       IN IF ~BinaryGuardsOk(lab1, lab2, err_label)
          THEN Abort("err")
          ELSE IF pos + 9 < InstrCount /\ IsRegReg(At(pos + 9), "Add", "Rax", "R8")
          THEN IF stack = <<>> \/ Top.expr_list = <<>>
               THEN Abort("panic")
               ELSE LET a == PlusArm(stack, Top.expr_list, pos)
                    IN /\ frames' = Append(Below,
                            [Top EXCEPT !.expr_list = a.expr_list, !.pos = a.pos])
                       /\ stack' = a.stack
                       /\ UNCHANGED status
                       /\ ret' = <<>>
          ELSE Abort("panic")
    /\ UNCHANGED <<constVars, loadVars>>

\* Cmp Eax/Rax, imm; Je if_false: the then-region is parsed first.
\* `address_to_index(if_false).unwrap() - 1` below index 0 panics in a build
\* with overflow checks and wraps in one without.
Conditional ==
    /\ Matches("cond")
    /\ LET pos == Top.pos
           if_false == At(pos + 1)[2][2]
           idx == address_to_index(if_false)
       IN IF idx = <<>>
          THEN Abort("panic")
          ELSE \E overflow_checks \in BOOLEAN :
                 IF idx[1] = 0 /\ overflow_checks
                 THEN Abort("panic")
                 ELSE Enter(Append(Below, [Top EXCEPT !.pc = "if_true",
                                                      !.if_false = if_false,
                                                      !.jmp_loc = idx[1] - 1,
                                                      !.then_stack = stack]),
                            stack, pos + 2, <<idx[1] - 1>>, <<>>)
    /\ UNCHANGED <<constVars, loadVars>>

\* The slice `instructions()[pos..]` starts past the end of the vector.
PeekOutOfBounds ==
    /\ Matches("out_of_bounds")
    /\ Abort("panic")
    /\ UNCHANGED <<constVars, loadVars>>

\* Ok((expr, pos)) goes back to the caller, which carries on from the call.
Return(r) ==
    IF Len(frames) = 1
    THEN \* parse: Ok(LootProgram { defines, expr })
         /\ frames' = <<>>
         /\ status' = "ok"
         /\ ret' = <<r>>
         /\ UNCHANGED stack
    ELSE LET caller == frames[Len(frames) - 1]
             outer == SubSeq(frames, 1, Len(frames) - 2)
         IN IF caller.pc = "spill"
            THEN \* (expr, new_pos) of the spill arm
                 /\ frames' = Append(outer,
                        [caller EXCEPT !.pc = "loop", !.pos = r.pos,
                                       !.expr_list = Append(caller.expr_list, r.expr)])
                 /\ ret' = <<r>>
                 /\ UNCHANGED <<stack, status>>
            ELSE IF caller.pc = "if_true"
            THEN \* find the jump that ends the then-region, parse the else-region
                 IF caller.jmp_loc < 0 \/ ~IsJumpToAddress(At(caller.jmp_loc), "Jmp")
                 THEN /\ frames' = <<>>
                      /\ stack' = <<>>
                      /\ status' = IF caller.jmp_loc < 0 THEN "panic" ELSE "err"
                      /\ ret' = <<r>>
                 ELSE LET if_end == address_to_index(At(caller.jmp_loc)[2][2])
                      IN IF if_end = <<>>
                         THEN /\ frames' = <<>>
                              /\ stack' = <<>>
                              /\ status' = "panic"
                              /\ ret' = <<r>>
                         ELSE Enter(Append(outer,
                                        [caller EXCEPT !.pc = "if_false",
                                                       !.expr_if_true = r.expr,
                                                       !.if_end = if_end[1]]),
                                    stack,
                                    address_to_index(caller.if_false)[1],
                                    if_end, <<r>>)
            ELSE \* caller.pc = "if_false": build the If
                 IF caller.expr_list = <<>>
                 THEN /\ frames' = <<>>
                      /\ stack' = <<>>
                      /\ status' = "panic"
                      /\ ret' = <<r>>
                 ELSE LET a == IfArm(caller.expr_list, caller.expr_if_true, r.expr,
                                     caller.pos, caller.if_end)
                      IN /\ frames' = Append(outer,
                              [caller EXCEPT !.pc = "loop", !.pos = a.pos,
                                             !.expr_list = a.expr_list])
                         /\ ret' = <<r>>
                         /\ UNCHANGED <<stack, status>>

\* The loop is left: fold the region's expressions and return.
Finish ==
    IF Top.expr_list = <<>>
    THEN Abort("panic")
    ELSE Return([position |-> Top.position, stop |-> Top.stop,
                 expr |-> Fold(Top.expr_list), pos |-> Top.pos])

\* `_ => (Expr::Unknown, pos)`, then `break`
NoMatch ==
    /\ Matches("none")
    /\ Finish
    /\ UNCHANGED <<constVars, loadVars>>

\* `pos < stop` is false
RegionEnd ==
    /\ AtLoopHead
    /\ ~InRegion
    /\ Finish
    /\ UNCHANGED <<constVars, loadVars>>

\* parse_defines: (Vec::new(), position + 1)
parse_defines(position) == [defines |-> <<>>, expr_start |-> position + 1]

\* main has the Program and calls parse.
parse ==
    /\ ld = "loaded"
    /\ status = "running"
    /\ ld' = "parsing"
    /\ IF InstrCount < 3
       THEN Abort("panic")
       ELSE IF ~(/\ At(0)[1] = "Push" /\ IsReg(At(0)[2], "Rbx")
                 /\ At(1)[1] = "Push" /\ IsReg(At(1)[2], "R15")
                 /\ IsRegReg(At(2), "Mov", "Rbx", "Rdi"))
       THEN Abort("err")
       ELSE IF symbol_to_address("err") = <<>>
       THEN Abort("panic")
       ELSE LET idx == address_to_index(err_label)
            IN IF idx = <<>>
               THEN Abort("panic")
               ELSE \E overflow_checks \in BOOLEAN :
                      IF idx[1] < 4 /\ overflow_checks
                      THEN Abort("panic")
                      ELSE Enter(<<>>, <<>>, parse_defines(3).expr_start,
                                 <<idx[1] - 4>>, <<>>)
    /\ UNCHANGED <<constVars, elf, symidx, insidx, address_to_symbols,
                   symbols_to_address, entry_point, instructions, memory_map>>

(***************************************************************************)
(* main: from_elf_file, then parse.  The inputs are programs as the        *)
(* compiler lays them out (prologue, the skipped instruction, the body of  *)
(* the top-level expression, the four-instruction epilogue, the err        *)
(* block), each also with one instruction of the body replaced or one      *)
(* symbol missing.  In a template a jump target is an instruction index,   *)
(* ErrIndex standing for the err block; Assemble turns it into an address. *)
(***************************************************************************)
ErrIndex == 0 - 1
ReadByteAddr == EntryAddr - 8
PeekByteAddr == EntryAddr - 6
RaiseErrorAddr == EntryAddr - 4
OtherAddr == EntryAddr - 2

MovAcc(n) == Mov(Reg("Eax"), Lit(W(n)))
TypeCheck(reg, target) ==
    <<Mov(Reg("R9"), Reg(reg)), And(Reg("R9"), Lit(W(15))),
      Cmp(Reg("R9"), Lit(W(0))), Jne(Addr(target))>>
CallIdiom(a) ==
    <<Mov(Reg("R15"), Reg("Rsp")), And(Reg("R15"), Lit(W(8))),
      Sub(Reg("Rsp"), Reg("R15")), Call(a), Add(Reg("Rsp"), Reg("R15"))>>
Add1Idiom == TypeCheck("Rax", ErrIndex) \o <<Add(Reg("Rax"), Lit(W(16)))>>
PlusIdiom ==
    <<Pop(Reg("R8"))>> \o TypeCheck("R8", ErrIndex) \o TypeCheck("Rax", ErrIndex)
        \o <<Add(Reg("Rax"), Reg("R8"))>>

Prologue ==
    <<Push(Reg("Rbx")), Push(Reg("R15")), Mov(Reg("Rbx"), Reg("Rdi"))>>
Epilogue ==
    <<Add(Reg("Rsp"), Lit(W(0))), Pop(Reg("R15")), Pop(Reg("Rbx")), Ret>>
ErrBlock ==
    <<Mov(Reg("R15"), Reg("Rsp")), And(Reg("R15"), Lit(W(8))),
      Sub(Reg("Rsp"), Reg("R15")), Call(RaiseErrorAddr)>>

BodyStart == Len(Prologue) + 1

\* #t
BodyTrue == <<MovAcc(24)>>
\* (add1 1)
BodyAdd1 == <<MovAcc(16)>> \o Add1Idiom
\* (if 1 #t #f)
BodyIf ==
    <<MovAcc(16), Cmp(Reg("Rax"), Lit(W(56))), Je(Addr(BodyStart + 5)),
      MovAcc(24), Jmp(Addr(BodyStart + 6)), MovAcc(56)>>
\* (+ 1 2)
BodyPlus == <<MovAcc(16), Push(Reg("Rax")), MovAcc(32)>> \o PlusIdiom
\* (begin (read-byte) (peek-byte))
BodyCalls == CallIdiom(ReadByteAddr) \o CallIdiom(PeekByteAddr)
\* (begin #t (add1 (read-byte)))
BodyBegin == <<MovAcc(24)>> \o CallIdiom(ReadByteAddr) \o Add1Idiom

\* (begin #t 1 #f)
BodySeq == <<MovAcc(24), MovAcc(16), MovAcc(56)>>
\* (+ 1 (+ 2 3))
BodyNested ==
    <<MovAcc(16), Push(Reg("Rax")), MovAcc(32), Push(Reg("Rax")), MovAcc(48)>>
        \o PlusIdiom \o PlusIdiom
\* a then-region that spills an operand and leaves it, an else-region that pops
BodyThenSpill ==
    <<MovAcc(16), Cmp(Reg("Rax"), Lit(W(56))), Je(Addr(BodyStart + 7)),
      MovAcc(16), Push(Reg("Rax")), MovAcc(32), Jmp(Addr(BodyStart + 18)),
      MovAcc(48)>> \o PlusIdiom
\* (begin (if 1 #t (+ 1 2)) #f)
BodyElseSpill ==
    <<MovAcc(16), Cmp(Reg("Rax"), Lit(W(56))), Je(Addr(BodyStart + 5)),
      MovAcc(24), Jmp(Addr(BodyStart + 18)),
      MovAcc(16), Push(Reg("Rax")), MovAcc(32)>> \o PlusIdiom \o <<MovAcc(56)>>

Bodies ==
    {BodyTrue, BodyAdd1, BodyIf, BodyPlus, BodyCalls, BodyBegin,
     BodySeq, BodyNested, BodyThenSpill, BodyElseSpill}

\* What one instruction of a body is replaced by.
Replacements ==
    {Ret, MovAcc(1), MovAcc(16), Push(Reg("Rax")), Jne(Addr(0)),
     Jmp(Addr(BodyStart)), Je(Addr(0)), Je(Addr(BodyStart)), Call(OtherAddr)}

Layout(body) ==
    Prologue \o <<Add(Reg("Rbx"), Lit(W(0)))>> \o body \o Epilogue \o ErrBlock

Templates ==
    UNION {
        {Layout(body)} \cup
        {Layout([body EXCEPT ![i] = r]) : i \in 1..Len(body), r \in Replacements}
        : body \in Bodies}

\* The encoded length of an instruction.
InstrLen(ins) ==
    IF ins[1] \in {"Push", "Pop", "Ret"} THEN 1
    ELSE IF ins[1] \in {"Jmp", "Jne", "Je"} THEN 2
    ELSE IF ins[1] = "Call" THEN 5
    ELSE 3

\* The number of bytes of the first i instructions.
OffsetOf(tpl, i) ==
    Cardinality(UNION {{<<k, j>> : j \in 1..InstrLen(tpl[k])} : k \in 1..i})

ErrIndexOf(tpl) == Len(tpl) - Len(ErrBlock)

AddressOf(tpl, i) ==
    EntryAddr + OffsetOf(tpl, IF i = ErrIndex THEN ErrIndexOf(tpl) ELSE i)

Assemble(tpl) ==
    [i \in 1..Len(tpl) |->
        [len |-> InstrLen(tpl[i]),
         ins |-> IF tpl[i][1] \in {"Jmp", "Jne", "Je"}
                 THEN <<tpl[i][1], Addr(AddressOf(tpl, tpl[i][2][2]))>>
                 ELSE tpl[i]]]

Symtab(tpl) ==
    <<[name |-> "entry", value |-> EntryAddr],
      [name |-> "err", value |-> AddressOf(tpl, ErrIndex)],
      [name |-> "read_byte", value |-> ReadByteAddr],
      [name |-> "peek_byte", value |-> PeekByteAddr]>>

Without(q, k) == SubSeq(q, 1, k - 1) \o SubSeq(q, k + 1, Len(q))

Elf(symtab, code) ==
    [symtab |-> symtab, text_start |-> ReadByteAddr, text_size |-> 4096,
     code |-> code]

ParseInputs ==
    {Elf(Symtab(tpl), Assemble(tpl)) : tpl \in Templates}
    \cup {Elf(Without(Symtab(Layout(body)), k), Assemble(Layout(body))) :
            body \in Bodies, k \in 1..4}
    \cup {Elf(<<[name |-> "entry", value |-> EntryAddr],
                [name |-> "err", value |-> EntryAddr]>>,
              Assemble(code)) : code \in {Prologue, <<Ret>>}}
    \cup {Elf(Symtab(Layout(BodyTrue)),
               Assemble([Layout(BodyTrue) EXCEPT ![i] = Ret])) : i \in 1..3}

Init ==
    /\ lit = W(0)
    /\ decoded = Pending
    /\ elf \in ParseInputs
    /\ ld = "symbols"
    /\ symidx = 0
    /\ insidx = 0
    /\ address_to_symbols = <<>>
    /\ symbols_to_address = <<>>
    /\ entry_point = <<>>
    /\ instructions = <<>>
    /\ memory_map = {}
    /\ IdleParser

Next ==
    \/ LoadSymbol
    \/ ResolveEntry
    \/ Disassemble
    \/ BuildMemoryMap
    \/ parse
    \/ LiteralLoad
    \/ PrimitiveCall
    \/ GuardedUnary
    \/ OperandSpill
    \/ GuardedBinary
    \/ Conditional
    \/ PeekOutOfBounds
    \/ NoMatch
    \/ RegionEnd

Spec == Init /\ [][Next]_vars

(***************************************************************************)
(* Properties of the idiom matcher                                         *)
(***************************************************************************)
InputOf(tpl) == Elf(Symtab(tpl), Assemble(tpl))
Replaced(body, i, r) == InputOf(Layout([body EXCEPT ![i] = r]))

\* C3 (as claimed): a literal load whose immediate parse_const cannot decode
\* is a local decode failure: the run neither panics nor aborts.
C3_UndecodableIsLocal ==
    [][(Matches("literal") /\ parse_const(At(Top.pos)[3][2]).kind = "None")
          => status' = "running"]_vars

\* The type-check guard matched at the cursor jumps somewhere else than err.
GuardMismatch ==
    \/ /\ Matches("unary")
       /\ At(Top.pos + 3)[2][2] # err_label
    \/ /\ Matches("binary")
       /\ (At(Top.pos + 4)[2][2] # err_label \/ At(Top.pos + 8)[2][2] # err_label)

\* C4: a matched guard whose Jne target is not the address of "err" makes
\* the run a hard failure (Err); no call goes on and no expression is built.
C4_GuardMismatchFails ==
    [][GuardMismatch => (status' = "err" /\ frames' = <<>> /\ ret' = <<>>)]_vars

\* (+ 1 2) with the second guard jumping to the entry point: a hard failure
C4_Witness ==
    /\ elf = Replaced(BodyPlus, 12, Jne(Addr(0)))
    /\ status = "err"
    /\ instructions # <<>>
    /\ address_to_index(instructions[BodyStart + 12][2][2]) = <<0>>
    /\ address_to_index(instructions[BodyStart + 8][2][2]) = address_to_index(err_label)

\* C5 (as claimed): when no idiom matches at the cursor the call returns a
\* fragment for its region, ending at the cursor, also when nothing has
\* been recognised in the region yet.
C5_NoMatchReturns ==
    [][Matches("none")
          => /\ ret' # <<>>
             /\ ret'[1].position = Top.position
             /\ ret'[1].stop = Top.stop
             /\ ret'[1].pos = Top.pos]_vars

\* A lookup that finds a required symbol missing is about to be made.
MissingSymbolDetected ==
    \/ /\ ld = "symbols"
       /\ symidx = Len(elf.symtab)
       /\ symbol_to_address("entry") = <<>>
    \/ /\ ld = "loaded"
       /\ status = "running"
       /\ symbol_to_address("err") = <<>>
    \/ /\ Matches("call")
       /\ symbol_to_address("read_byte") = <<>>
    \/ /\ Matches("call")
       /\ symbol_to_address("read_byte") # <<>>
       /\ At(Top.pos + 3)[2] # symbol_to_address("read_byte")[1]
       /\ symbol_to_address("peek_byte") = <<>>

\* C6 (as claimed): when a required symbol turns out to be missing, the
\* matcher has not begun: no idiom was matched, no expression was built.
C6_MissingSymbolBeforeMatching ==
    MissingSymbolDetected =>
        /\ stack = <<>>
        /\ \A k \in 1..Len(frames) :
              /\ frames[k].expr_list = <<>>
              /\ frames[k].pos = frames[k].position
              /\ frames[k].pc = "loop"

\* A conditional matched by some call is still being reconstructed.
ConditionalPending ==
    /\ status = "running"
    /\ \E k \in 1..Len(frames) : frames[k].pc \in {"if_true", "if_false"}

\* The else-region of a conditional ends in this step.
ElseRegionEnds ==
    /\ AtLoopHead
    /\ Len(frames) > 1
    /\ frames[Len(frames) - 1].pc = "if_false"
    /\ (InRegion => Peek(Top.pos) = "none")

\* C9 (as claimed): a matched conditional Cmp; Je L yields
\* If(test, then, else) with then and else the reconstructions of
\* [c+2, index(L)-1) and [index(L), index(E)), the enclosing region going on
\* at index(E), or else a hard failure when no Jmp E stands at index(L)-1:
\* never a panic.
C9_ConditionalShape ==
    [][/\ ConditionalPending => status' # "panic"
       /\ ElseRegionEnds =>
            LET caller == frames[Len(frames) - 1]
            IN /\ ret' # <<>>
               /\ ret'[1].position = address_to_index(caller.if_false)[1]
               /\ ret'[1].stop =
                    address_to_index(At(address_to_index(caller.if_false)[1] - 1)[2][2])
               /\ frames' = Append(SubSeq(frames, 1, Len(frames) - 2),
                     [caller EXCEPT
                         !.pc = "loop",
                         !.pos = ret'[1].stop[1],
                         !.expr_list = Append(Front(caller.expr_list),
                             If(Last(caller.expr_list), caller.expr_if_true,
                                ret'[1].expr))])]_vars

\* The guarded unary idiom followed by Add Rax,0x10 stands at the cursor and
\* the region has a completed expression.
Add1Matched ==
    /\ Matches("unary")
    /\ At(Top.pos + 3)[2][2] = err_label
    /\ Top.pos + 4 < InstrCount
    /\ At(Top.pos + 4) = Add(Reg("Rax"), Lit(W(16)))
    /\ Top.expr_list # <<>>

\* The instructions of the region a call returned from.
RegionOf(r) ==
    IF r.stop = <<>> \/ r.stop[1] < r.position
    THEN <<>>
    ELSE SubSeq(instructions, r.position + 1, r.stop[1])

ScenarioB ==
    <<Mov(Reg("Eax"), Lit(W(16))),
      Mov(Reg("R9"), Reg("Rax")), And(Reg("R9"), Lit(W(15))),
      Cmp(Reg("R9"), Lit(W(0))), Jne(Addr(err_label)),
      Add(Reg("Rax"), Lit(W(16)))>>

\* C10: the guarded unary idiom with Add Rax,0x10 replaces the most recently
\* completed expression e by Op(Add1(e)) and moves the cursor by 5; the
\* stream of Scenario B comes back as Op(Add1(Literal(Integer(1)))).
C10_Add1 ==
    [][/\ Add1Matched =>
            /\ frames' = Append(Below,
                  [Top EXCEPT
                      !.expr_list = Append(Front(Top.expr_list),
                                           Add1(Last(Top.expr_list))),
                      !.pos = Top.pos + 5])
            /\ UNCHANGED <<stack, status>>
       /\ (ret' # <<>> /\ symbol_to_address("err") # <<>>
               /\ RegionOf(ret'[1]) = ScenarioB)
            => /\ ret'[1].expr = Add1(Literal(Integer(W(1))))
               /\ ret'[1].pos = ret'[1].position + 6]_vars

C10_Witness ==
    /\ status = "ok"
    /\ ret # <<>>
    /\ symbol_to_address("err") # <<>>
    /\ RegionOf(ret[1]) = ScenarioB
    /\ ret[1].expr = Add1(Literal(Integer(W(1))))

\* An operand spill stands at the cursor and the region has completed
\* expressions.
SpillMatched ==
    /\ Matches("spill")
    /\ Top.expr_list # <<>>

\* The guarded binary idiom ending in Add Rax,R8 stands at the cursor, an
\* operand was spilled and the region has a completed expression.
PlusMatched ==
    /\ Matches("binary")
    /\ At(Top.pos + 4)[2][2] = err_label
    /\ At(Top.pos + 8)[2][2] = err_label
    /\ Top.pos + 9 < InstrCount
    /\ At(Top.pos + 9) = Add(Reg("Rax"), Reg("R8"))
    /\ stack # <<>>
    /\ Top.expr_list # <<>>

One == Literal(Integer(W(1)))
Two == Literal(Integer(W(2)))
Three == Literal(Integer(W(3)))

\* C11: at a spill the expressions the region has completed are folded in
\* order into one expression s, which is pushed on the operand stack, and the
\* parse goes on, unbounded, from the next instruction; the guarded binary
\* idiom ending in Add Rax,R8 pops s from the top of the operand stack,
\* replaces the most recently completed expression r of its region by
\* Op(Plus(s, r)) and moves the cursor by 10; nested spills pair
\* innermost-first: (+ 1 (+ 2 3)) comes back as Plus(1, Plus(2, 3)).
C11_SpillThenPlus ==
    [][/\ SpillMatched =>
            /\ Len(stack') = Len(stack) + 1
            /\ SubSeq(stack', 1, Len(stack)) = stack
            /\ Len(Top.expr_list) = 1 => Last(stack') = Top.expr_list[1]
            /\ Len(Top.expr_list) = 2 =>
                  Last(stack') = Begin(Top.expr_list[1], Top.expr_list[2])
            /\ Len(Top.expr_list) = 3 =>
                  Last(stack') = Begin(Top.expr_list[1],
                                       Begin(Top.expr_list[2], Top.expr_list[3]))
            /\ Len(frames') = Len(frames) + 1
            /\ frames'[Len(frames')].position = Top.pos + 1
            /\ frames'[Len(frames')].stop = <<>>
            /\ status' = "running"
       /\ PlusMatched =>
            /\ frames' = Append(Below,
                  [Top EXCEPT
                      !.expr_list = Append(Front(Top.expr_list),
                                           Plus(Last(stack), Last(Top.expr_list))),
                      !.pos = Top.pos + 10])
            /\ stack' = Front(stack)
            /\ status' = "running"
       /\ (status' = "ok" /\ elf = InputOf(Layout(BodyNested)))
            => ret'[1].expr = Plus(One, Plus(Two, Three))]_vars

C11_Witness ==
    /\ elf = InputOf(Layout(BodyNested))
    /\ status = "ok"
    /\ ret # <<>>
    /\ ret[1].expr = Plus(One, Plus(Two, Three))
    /\ stack = <<>>

\* The traversal of the running call's region ends in this step with at least
\* one accumulated expression.
RegionEndsWithExprs ==
    /\ AtLoopHead
    /\ InRegion => Peek(Top.pos) = "none"
    /\ Top.expr_list # <<>>

\* e1..ek combined left to right, ek the tail value.
RECURSIVE NestedBegin(_)
NestedBegin(q) ==
    IF Len(q) = 1 THEN q[1] ELSE Begin(Head(q), NestedBegin(Tail(q)))

\* C12: when the traversal of a region ends (bound reached or no idiom
\* matched) with accumulated expressions e1..ek, k >= 1, the call returns
\* Begin(e1, Begin(e2, ... Begin(e(k-1), ek))), and e1 itself when k = 1,
\* together with the cursor.
C12_RegionFold ==
    [][RegionEndsWithExprs =>
          /\ ret' # <<>>
          /\ ret'[1].expr = NestedBegin(Top.expr_list)
          /\ Len(Top.expr_list) = 1 => ret'[1].expr = Top.expr_list[1]
          /\ ret'[1].pos = Top.pos]_vars

C12_Witness ==
    /\ elf = InputOf(Layout(BodySeq))
    /\ status = "ok"
    /\ ret # <<>>
    /\ ret[1].expr = Begin(Literal(Boolean(TRUE)),
                           Begin(One, Literal(Boolean(FALSE))))

\* main is about to call parse.
ParseCalled ==
    /\ ld = "loaded"
    /\ status = "running"

\* The program starts with Push Rbx; Push R15; Mov Rbx,Rdi.
StartsWithPrologue ==
    /\ InstrCount >= Len(Prologue)
    /\ SubSeq(instructions, 1, Len(Prologue)) = Prologue

\* C13 (as claimed): for a program that starts with the prologue, parse has
\* an empty definition list and reconstructs the top-level expression from
\* the region that starts at index 3, the first instruction after the
\* prologue, and ends 4 instructions before the index of "err"; a program
\* that does not start with the prologue is a failure.
C13_TopLevelRegion ==
    [][ParseCalled =>
          IF StartsWithPrologue
          THEN /\ parse_defines(Len(Prologue)).defines = <<>>
               /\ status' = "running" =>
                    /\ Len(frames') = 1
                    /\ frames'[1].position = Len(Prologue)
                    /\ frames'[1].pos = Len(Prologue)
                    /\ frames'[1].stop = <<address_to_index(err_label)[1] - 4>>
          ELSE status' \in {"err", "panic"}]_vars

\* C14 (as claimed): the operand stack on entry to the else-region of a
\* conditional is the stack on entry to its then-region, and a binary idiom
\* matched in the else-region before that region has touched the stack does
\* not pop an operand that was not there on entry to the then-region.
C14_SiblingIsolation ==
    /\ \A k \in 1..(Len(frames) - 1) :
          frames[k].pc = "if_false"
              => frames[k + 1].stack_on_entry = frames[k].then_stack
    /\ (/\ PlusMatched
        /\ Len(frames) > 1
        /\ frames[Len(frames) - 1].pc = "if_false"
        /\ stack = Top.stack_on_entry)
          => Len(stack) <= Len(frames[Len(frames) - 1].then_stack)

\* The number of instructions the idiom of an arm consumes.
Extent(arm) ==
    IF arm \in {"call", "unary"} THEN 5
    ELSE IF arm = "binary" THEN 10
    ELSE IF arm = "cond" THEN 2
    ELSE 1

IdiomArms == {"literal", "call", "unary", "spill", "binary", "cond"}

\* `pos <= stop` on usize, stop possibly wrapped
UpTo(pos, stop) == stop < 0 \/ pos <= stop

\* C15 (as claimed): a call with the bound Some(stop) that returns Ok returns
\* a cursor pos <= stop, and no idiom matched while a bounded region is being
\* reconstructed (by the region's call or by a call nested in it) consumes an
\* instruction at or beyond that region's bound.
C15_RegionBounds ==
    [][/\ (ret' # <<>> /\ ret'[1].stop # <<>>)
            => UpTo(ret'[1].pos, ret'[1].stop[1])
       /\ \A arm \in IdiomArms :
             Matches(arm) =>
                \A k \in 1..Len(frames) :
                    frames[k].stop # <<>>
                        => UpTo(Top.pos + Extent(arm), frames[k].stop[1])]_vars

(***************************************************************************)
(* Termination.  main runs from_elf_file and parse to their end without    *)
(* waiting for anything, so every step that can be taken is taken.         *)
(***************************************************************************)
InitLive ==
    /\ lit = W(0)
    /\ decoded = Pending
    /\ IdleLoader
    /\ IdleParser

\* from_elf_file reads the file named on the command line and parses it as ELF.
ReadElf ==
    /\ ld = "idle"
    /\ elf = NoElf
    /\ elf' \in ParseInputs
    /\ ld' = "symbols"
    /\ UNCHANGED <<constVars, symidx, insidx, address_to_symbols, symbols_to_address,
                   entry_point, instructions, memory_map, parseVars>>

NextLive ==
    \/ ReadElf
    \/ LoadSymbol
    \/ ResolveEntry
    \/ Disassemble
    \/ BuildMemoryMap
    \/ parse
    \/ LiteralLoad
    \/ PrimitiveCall
    \/ GuardedUnary
    \/ OperandSpill
    \/ GuardedBinary
    \/ Conditional
    \/ PeekOutOfBounds
    \/ NoMatch
    \/ RegionEnd

SpecLive == InitLive /\ [][NextLive]_vars /\ WF_vars(NextLive)

\* The run is over: the loader failed, or parse returned, bailed or panicked.
Terminated == ld = "failed" \/ status # "running"

\* The traversal of the running call's region ends in this step.
RegionEnds ==
    /\ AtLoopHead
    /\ InRegion => Peek(Top.pos) = "none"

\* Every loop iteration that matches an idiom moves the cursor of its call
\* forward, and every nested call starts beyond the instruction that made
\* the call.
CursorMoves ==
    /\ \A arm \in {"literal", "call", "unary", "binary"} :
          (Matches(arm) /\ status' = "running")
              => /\ Len(frames') = Len(frames)
                 /\ frames'[Len(frames')].pos > Top.pos
    /\ \A arm \in {"spill", "cond"} :
          (Matches(arm) /\ status' = "running")
              => /\ Len(frames') = Len(frames) + 1
                 /\ frames'[Len(frames')].position > Top.pos
    /\ (RegionEnds /\ Len(frames) > 1 /\ status' = "running")
          => LET caller == frames[Len(frames) - 1]
             IN IF caller.pc = "if_true"
                THEN frames'[Len(frames')].position > caller.pos
                ELSE frames'[Len(frames')].pos > caller.pos

\* C16: every run of main terminates, with an AST or with a failure; every
\* loop iteration of parse_expr that matches an idiom moves the cursor to a
\* greater index and every nested call starts at a greater index than the
\* instruction that made it.
C16_Terminates ==
    /\ <>Terminated
    /\ [][CursorMoves]_vars

\* a conditional whose trailing jump goes back to the start of the body: the
\* call for its else-region has been made
C16_Witness ==
    /\ elf = Replaced(BodyIf, 5, Jmp(Addr(BodyStart)))
    /\ status = "running"
    /\ Len(frames) = 2
    /\ frames[1].pc = "if_false"
    /\ frames[1].if_end <= frames[1].pos

====
